---- MODULE Spec2Model ----
(***************************************************************************)
(* The agent execution pipeline of backend/ai_agents.py (the revision that *)
(* backend/main.py imports) and backend/ai_agent_system.py (the revision   *)
(* the test scripts import).  The two revisions share the control flow of  *)
(* execute_agent / _execute_agent / execute_all_agents and differ in which *)
(* failures they swallow; the variable rev says which class is running.    *)
(*                                                                         *)
(* Specifications, all over the same actions:                              *)
(*   Spec          one caller, every setting, everyday replies and files   *)
(*   SpecOutput    fixed settings, every kind of reply                     *)
(*   SpecPrompt    fixed settings, every kind of template and input file   *)
(*   SpecRegistry  two objects enabling and disabling agents               *)
(*   SpecBoot      construction from a valid, malformed or missing document*)
(*   SpecLoop      one process: a caller executing, a caller (dis)enabling *)
(*   SpecShared    one process: two callers executing the same agent       *)
(*   SpecProcesses two processes executing the same agent                  *)
(***************************************************************************)
EXTENDS Integers, Sequences, FiniteSets, TLC

\* ------------------------------------------------------------------ bounds
\* Largest configured settings.max_retries the model draws.
MaxRetriesBound == 2
\* The wall clock (datetime.now(), to the second) runs over 0..MaxClock.
MaxClock == 1

\* --------------------------------------------------------- program constants
\* settings.get("max_retries", 3)
DefaultMaxRetries == 3
\* asyncio.sleep(2 ** attempt)
BackoffBase == 2

\* ---------------------------------------------------------------- universe
Revisions == {"ai_agents", "ai_agent_system"}
Tasks == {"t1", "t2"}
Instances == {"s1", "s2"}

\* The "agents" mapping of the configuration document, in document order
\* (a Python dict iterates in insertion order).
Registry == <<"a1", "a2">>
AgentIds == {Registry[i] : i \in 1..Len(Registry)}
\* An id that is not a key of the mapping.
UnknownIds == {"zz"}
AllIds == AgentIds \cup UnknownIds

NoValue == "none"
\* agent_config.get("output_file")
OutputFile(a) == IF a = "a1" THEN "o1" ELSE NoValue
Paths == {"o1"}
\* agent_config.get("template_file")
TemplateFile(a) == IF a = "a1" THEN "tp1" ELSE NoValue
TemplatePaths == {"tp1"}
\* The key under which the document names the agent's input, and the path.
\* ai_agents.py reads the list "input_files", ai_agent_system.py the single
\* "input_file".
InputKey(a) == IF a = "a1" THEN "input_files" ELSE "input_file"
InputPath(a) == "in1"
InputPaths == {"in1"}

\* Texts are sequences of tokens.  "FENCE" is three backticks and "json" the
\* tag that may follow them,
\* "ws" a whitespace character, "{a:1}" a compact JSON text, "{a: 1}" the
\* same value as json.dump(indent=2) prints it, "{s:\\ud800}" a JSON text
\* whose string holds the escape of a lone surrogate, "txt" anything else.
Absent == <<"ENOENT">>
\* A file that exists and cannot be opened for reading.
Unreadable == <<"EACCES">>
OldContent == <<"old">>
\* The JSON object wrapped in json fences, as the model usually answers.
FencedReply == <<"FENCE", "json", "ws", "{a:1}", "ws", "FENCE">>
\* The same object wrapped in plain fences, without the json tag.
PlainFencedReply == <<"FENCE", "ws", "{a:1}", "ws", "FENCE">>
\* The object followed by a closing fence only.
CloseFencedReply == <<"{a:1}", "ws", "FENCE">>
\* Every kind of text the completion endpoint may return.
Replies ==
    {FencedReply,
     PlainFencedReply,
     <<"FENCE", "json", "ws", "{a:1}">>,
     CloseFencedReply,
     <<"ws", "{a:1}">>,
     <<"{s:\\ud800}">>,
     <<"txt">>}
\* The two everyday kinds: a fenced JSON object, and prose.
CommonReplies == {FencedReply, <<"txt">>}

NoMsg == [kind |-> "none", id |-> NoValue, at |-> -1]
Msg(kind, id, at) == [kind |-> kind, id |-> id, at |-> at]

VARIABLES
    rev,          \* which revision of AIAgentSystem runs
    inst,         \* task -> the AIAgentSystem instance it calls
    enabled,      \* instance -> agent -> config["agents"][a]["enabled"]
    disk_enabled, \* agent -> the flag in the configuration document on disk
    max_retries,  \* settings["max_retries"]: <<n>>, or <<>> when the key is absent
    backup_flag,  \* settings["backup_original_files"]: <<b>>, or <<>> when absent
    now,          \* datetime.now() in seconds
    files,        \* path -> content of the output destination, or Absent
    backups,      \* <<path, timestamp>> -> content of <path>.backup_<timestamp>
    pc,           \* task -> position in the running coroutine
    op,           \* task -> the public method the caller invoked
    cur,          \* task -> agent_id of the execute_agent frame
    attempt,      \* task -> the loop variable of the retry loop
    result,       \* task -> the local result of _execute_agent, Absent if unbound
    log,          \* task -> what the current execute_agent frame did, in order
    idx,          \* task -> position of execute_all_agents in agents.items()
    results,      \* task -> the list execute_all_agents collects
    ret,          \* task -> what the last finished call gave its caller
    dest_seen,    \* task -> content of the destination when Writing was entered
    templates,    \* path -> content of the template file, or Absent
    inputs,       \* path -> content of the input file, Absent or Unreadable
    prompt,       \* task -> full_prompt of the frame, <<>> before it is built
    config_doc,   \* the configuration document on disk: valid, invalid or missing
    system,       \* instance -> unborn, ready, or failed (the constructor raised)
    boot_error,   \* instance -> the exception the constructor raised
    endpoint      \* the texts the completion endpoint answers with

vars == <<rev, inst, enabled, disk_enabled, max_retries, backup_flag, now, files,
          backups, pc, op, cur, attempt, result, log, idx, results, ret,
          dest_seen, templates, inputs, prompt, config_doc, system, boot_error,
          endpoint>>

confVars == <<rev, inst, max_retries, backup_flag, templates, inputs,
              config_doc, system, boot_error, endpoint>>
regVars == <<enabled, disk_enabled>>
fsVars == <<files, backups>>
\* ------------------------------------------------------------ pure helpers
\* dict.get(key, default) on an optional setting.
Get(setting, default) == IF setting = <<>> THEN default ELSE setting[1]

\* settings.get("backup_original_files", <default>): the default differs.
BackupDefault(r) == IF r = "ai_agents" THEN FALSE ELSE TRUE

\* Mutant of InRange: one attempt too many.
InRange_off_by_one(att, mr) == att <= mr

\* range(max_retries) holds attempt.
InRange(att, mr) == att < mr

\* Mutant of ShouldRetry: the last failure is backed off like the others.
ShouldRetry_always(att, mr) == att < mr

\* if attempt < max_retries - 1: sleep and go round again, else: raise
ShouldRetry(att, mr) == att < mr - 1

\* Mutant of Backoff: linear instead of exponential.
Backoff_linear(att) == BackoffBase * att

\* asyncio.sleep(2 ** attempt)
Backoff(att) == BackoffBase ^ att

\* str.strip() on a token text.
RECURSIVE LStrip(_)
LStrip(s) == IF s # <<>> /\ Head(s) = "ws" THEN LStrip(Tail(s)) ELSE s
RECURSIVE RStrip(_)
RStrip(s) ==
    IF s # <<>> /\ s[Len(s)] = "ws" THEN RStrip(SubSeq(s, 1, Len(s) - 1)) ELSE s
Strip(s) == RStrip(LStrip(s))

\* Mutant of Cleaned: a leading fence is removed with or without its tag.
Cleaned_any_leading_fence(text) ==
    LET c0 == Strip(text)
        c1 == IF Len(c0) >= 2 /\ c0[1] = "FENCE" /\ c0[2] = "json"
              THEN SubSeq(c0, 3, Len(c0))
              ELSE IF c0 # <<>> /\ c0[1] = "FENCE" THEN Tail(c0) ELSE c0
        c2 == IF c1 # <<>> /\ c1[Len(c1)] = "FENCE"
              THEN SubSeq(c1, 1, Len(c1) - 1) ELSE c1
    IN  Strip(c2)

\* The clean-up of markdown formatting before json.loads.
Cleaned(text) ==
    LET c0 == Strip(text)
        c1 == IF Len(c0) >= 2 /\ c0[1] = "FENCE" /\ c0[2] = "json"
              THEN SubSeq(c0, 3, Len(c0)) ELSE c0
        c2 == IF c1 # <<>> /\ c1[Len(c1)] = "FENCE"
              THEN SubSeq(c1, 1, Len(c1) - 1) ELSE c1
    IN  Strip(c2)

\* json.loads: the value of a JSON text, NoValue on JSONDecodeError.
JsonLoads(text) ==
    LET c == Strip(text)
    IN  IF Len(c) = 1 /\ c[1] \in {"{a:1}", "{a: 1}"} THEN "obj_a_1"
        ELSE IF Len(c) = 1 /\ c[1] = "{}" THEN "obj_empty"
        ELSE IF Len(c) = 1 /\ c[1] = "{s:\\ud800}" THEN "obj_surrogate"
        ELSE NoValue

\* json.dump(value, indent=2, ensure_ascii=False): the text it produces.
JsonDump(value) ==
    IF value = "obj_a_1" THEN <<"{a: 1}">>
    ELSE IF value = "obj_empty" THEN <<"{}">>
    ELSE IF value = "obj_surrogate" THEN <<"{s: ", "SURROGATE", "}">>
    ELSE <<>>

\* The file is opened with encoding="utf-8": a lone surrogate cannot be
\* encoded, and the chunk that holds it raises UnicodeEncodeError.
Encodable(tok) == tok # "SURROGATE"
RECURSIVE EncodablePrefix(_)
EncodablePrefix(text) ==
    IF text = <<>> \/ ~Encodable(Head(text)) THEN <<>>
    ELSE <<Head(text)>> \o EncodablePrefix(Tail(text))

\* ---------------------------------------------------------- prompt assembly
\* Contents a template file and an input file may have.
TemplateContents ==
    {Absent, <<"ws">>, <<"txt">>, <<"ws", "{a:1}", "ws">>, <<"{}">>}
InputContents == {Absent, Unreadable, <<>>, <<"doc">>}

\* Does json.loads raising leave _load_template as an exception?
TemplateFailureRaises(r) == r = "ai_agents"

\* _load_template(template_file): the parsed value, NoValue for None.
load_template(path, content) ==
    IF path = NoValue \/ content = Absent THEN NoValue
    ELSE IF Strip(content) = <<>> THEN NoValue
    ELSE JsonLoads(Strip(content))

\* The file is there and not blank, and json.loads rejects it.
TemplateInvalid(path, content) ==
    /\ path # NoValue /\ content # Absent
    /\ Strip(content) # <<>>
    /\ JsonLoads(Strip(content)) = NoValue

\* Python truth of a template value: None and the empty object are false.
Truthy(v) == v \notin {NoValue, "obj_empty"}

\* Does open() raising on an input file leave _execute_agent?
InputFailureRaises(r) == r = "ai_agents"

\* Does this revision look at the key the agent's input is configured under?
ReadsInput(r, a) ==
    IF r = "ai_agents" THEN InputKey(a) = "input_files"
    ELSE InputKey(a) = "input_file"

\* input_content.  ai_agents.py wraps each existing file in a header naming
\* its path and a newline; ai_agent_system.py takes the file's text as is.
input_content(r, a, ins) ==
    LET c == ins[InputPath(a)] IN
    IF ~ReadsInput(r, a) \/ c = Absent THEN <<>>
    ELSE IF r = "ai_agents"
         THEN <<"--- Content from ", InputPath(a), " ---", "nl">> \o c \o <<"nl">>
         ELSE IF c = Unreadable THEN <<>> ELSE c

BasePrompt(a) == <<"prompt of ", a>>

\* template_str
template_str(template) ==
    IF Truthy(template)
    THEN <<"nl", "nl", "Use this exact JSON structure as your template:", "nl">>
         \o JsonDump(template)
         \o <<"nl", "nl", "Fill in the values ...">>
    ELSE <<>>

\* full_prompt
full_prompt(base, template, content) ==
    IF content # <<>>
    THEN base \o template_str(template)
         \o <<"nl", "nl", "Document to analyze:", "nl">> \o content
    ELSE base \o template_str(template)

\* What lands in the output file for a reply.
Persisted(text) ==
    IF JsonLoads(Cleaned(text)) # NoValue
    THEN JsonDump(JsonLoads(Cleaned(text)))
    ELSE text

PreviewLimit == 200

\* Mutant of Preview: the preview is taken of the cleaned text.
Preview_cleaned(text) ==
    IF Len(Cleaned(text)) > PreviewLimit
    THEN SubSeq(Cleaned(text), 1, PreviewLimit) \o <<"...">>
    ELSE Cleaned(text)

\* result[:200] + "..." if len(result) > 200 else result
Preview(text) ==
    IF Len(text) > PreviewLimit
    THEN SubSeq(text, 1, PreviewLimit) \o <<"...">>
    ELSE text

\* The three dictionaries execute_agent / _execute_agent return.
ResultRecord(a, st, message, err, out, prev) ==
    [agent_id |-> a, status |-> st, message |-> message, error |-> err,
     output_file |-> out, result_preview |-> prev]
SkippedResult(a) ==
    ResultRecord(a, "skipped", "Agent is disabled", NoMsg, NoValue, <<>>)
ErrorResult(a, err) == ResultRecord(a, "error", NoValue, err, NoValue, <<>>)
SuccessResult(a, text) ==
    ResultRecord(a, "success", NoValue, NoMsg, OutputFile(a), Preview(text))

\* What a finished call gave its caller: a value, or an exception.
NoRet == [kind |-> "none", val |-> <<>>, flag |-> FALSE, exc |-> NoMsg]
Returned(list) == [kind |-> "return", val |-> list, flag |-> FALSE, exc |-> NoMsg]
ReturnedBool(b) == [kind |-> "return", val |-> <<>>, flag |-> b, exc |-> NoMsg]
Raised(err) == [kind |-> "raise", val |-> <<>>, flag |-> FALSE, exc |-> err]

Event(ev, a, n) == [ev |-> ev, agent |-> a, n |-> n]
Logged(t, ev, n) == [log EXCEPT ![t] = Append(@, Event(ev, cur[t], n))]

\* ------------------------------------------------------------------- Init
MaxRetriesChoices == {<<>>} \cup {<<n>> : n \in -1..MaxRetriesBound}
BackupChoices == {<<>>, <<TRUE>>, <<FALSE>>}

\* Every object has been constructed from a well-formed document.
Constructed ==
    /\ config_doc = "valid"
    /\ system = [i \in Instances |-> "ready"]
    /\ boot_error = [i \in Instances |-> NoMsg]

\* No call has been made yet.
Booted ==
    /\ now = 0
    /\ backups = [k \in Paths \X (0..MaxClock) |-> Absent]
    /\ pc = [t \in Tasks |-> "idle"]
    /\ op = [t \in Tasks |-> NoValue]
    /\ cur = [t \in Tasks |-> NoValue]
    /\ attempt = [t \in Tasks |-> 0]
    /\ result = [t \in Tasks |-> Absent]
    /\ log = [t \in Tasks |-> <<>>]
    /\ idx = [t \in Tasks |-> 0]
    /\ results = [t \in Tasks |-> <<>>]
    /\ ret = [t \in Tasks |-> NoRet]
    /\ dest_seen = [t \in Tasks |-> Absent]
    /\ prompt = [t \in Tasks |-> <<>>]

Init ==
    /\ rev \in Revisions
    /\ inst = [t \in Tasks |-> "s1"]
    /\ \E e \in [AgentIds -> BOOLEAN] :
          /\ enabled = [i \in Instances |-> e]
          /\ disk_enabled = e
    /\ max_retries \in MaxRetriesChoices
    /\ backup_flag \in BackupChoices
    /\ files \in [Paths -> {Absent, OldContent}]
    /\ templates \in [TemplatePaths -> {<<"ws", "{a:1}", "ws">>, <<"txt">>}]
    /\ inputs = [i \in InputPaths |-> <<"doc">>]
    /\ endpoint = CommonReplies
    /\ Constructed
    /\ Booted

\* ------------------------------------------------------- leaving a frame
\* execute_agent hands r to its caller: the outside caller, or the loop of
\* execute_all_agents, which appends it and moves on.
Deliver(t, r) ==
    IF op[t] = "execute_all_agents"
    THEN /\ results' = [results EXCEPT ![t] = Append(@, r)]
         /\ idx' = [idx EXCEPT ![t] = @ + 1]
         /\ pc' = [pc EXCEPT ![t] = "ea_loop"]
         /\ UNCHANGED ret
    ELSE /\ ret' = [ret EXCEPT ![t] = Returned(<<r>>)]
         /\ pc' = [pc EXCEPT ![t] = "idle"]
         /\ UNCHANGED <<results, idx>>

\* An exception leaves execute_agent; execute_all_agents has no handler, so
\* it leaves that too.
Propagate(t, err) ==
    /\ ret' = [ret EXCEPT ![t] = Raised(err)]
    /\ pc' = [pc EXCEPT ![t] = "idle"]
    /\ UNCHANGED <<results, idx>>

\* Mutant of Caught: the record loses the exception's message.
Caught_drops_message(t, err) == Deliver(t, ErrorResult(cur[t], NoMsg))

\* except Exception as e: return {"status": "error", "error": str(e)}
Caught(t, err) == Deliver(t, ErrorResult(cur[t], err))

\* Mutant of RaiseInPipeline: execute_agent has no handler.
RaiseInPipeline_unhandled(t, err) == Propagate(t, err)

\* An exception raised inside _execute_agent meets the handler of execute_agent.
RaiseInPipeline(t, err) == Caught(t, err)

\* ------------------------------------------------------------- operations
\* Mutant of IsEnabled: the flag is never consulted.
IsEnabled_ignored(flags, a) == TRUE

\* agent_config.get("enabled", True)
IsEnabled(flags, a) == flags[a]

\* Mutant of agent_not_found: the lookup failure comes back as an error record.
agent_not_found_as_result(t) ==
    Deliver(t, ErrorResult(cur[t], Msg("Agent not found", cur[t], -1)))

\* if agent_id not in agents: raise ValueError(f"Agent not found: {agent_id}")
agent_not_found(t) == Propagate(t, Msg("Agent not found", cur[t], -1))

\* A caller invokes execute_agent(agent_id).
call_execute_agent(t, id) ==
    /\ pc[t] = "idle"
    /\ system[inst[t]] = "ready"
    /\ op' = [op EXCEPT ![t] = "execute_agent"]
    /\ cur' = [cur EXCEPT ![t] = id]
    /\ attempt' = [attempt EXCEPT ![t] = 0]
    /\ result' = [result EXCEPT ![t] = Absent]
    /\ log' = [log EXCEPT ![t] = <<>>]
    /\ results' = [results EXCEPT ![t] = <<>>]
    /\ idx' = [idx EXCEPT ![t] = 0]
    /\ ret' = [ret EXCEPT ![t] = NoRet]
    /\ pc' = [pc EXCEPT ![t] = "execute_agent"]
    /\ dest_seen' = [dest_seen EXCEPT ![t] = Absent]
    /\ prompt' = [prompt EXCEPT ![t] = <<>>]
    /\ UNCHANGED <<confVars, regVars, now, fsVars>>

\* execute_agent up to the call of _execute_agent: lookup and enabled gate.
execute_agent(t) ==
    /\ pc[t] = "execute_agent"
    /\ IF cur[t] \notin AgentIds
       THEN agent_not_found(t)
       ELSE IF ~IsEnabled(enabled[inst[t]], cur[t])
       THEN Deliver(t, SkippedResult(cur[t]))
       ELSE /\ pc' = [pc EXCEPT ![t] = "assemble"]
            /\ UNCHANGED <<results, idx, ret>>
    /\ UNCHANGED <<confVars, regVars, now, fsVars, op, cur, attempt, result, log,
                   dest_seen, prompt>>

\* _execute_agent: reading the inputs and the template, building the prompt.
\* ai_agents.py lets an unreadable input or an unparsable template raise;
\* ai_agent_system.py swallows both.
assemble(t) ==
    LET a == cur[t]
        tf == TemplateFile(a)
        tc == IF tf = NoValue THEN Absent ELSE templates[tf]
    IN
    /\ pc[t] = "assemble"
    /\ IF /\ InputFailureRaises(rev) /\ ReadsInput(rev, a)
          /\ inputs[InputPath(a)] = Unreadable
       THEN /\ log' = Logged(t, "input_unreadable", -1)
            /\ RaiseInPipeline(t, Msg("input_unreadable", a, -1))
            /\ UNCHANGED prompt
       ELSE IF TemplateFailureRaises(rev) /\ TemplateInvalid(tf, tc)
       THEN /\ log' = Logged(t, "template_invalid", -1)
            /\ RaiseInPipeline(t, Msg("template_invalid", a, -1))
            /\ UNCHANGED prompt
       ELSE /\ prompt' = [prompt EXCEPT ![t] =
                             full_prompt(BasePrompt(a), load_template(tf, tc),
                                         input_content(rev, a, inputs))]
            /\ pc' = [pc EXCEPT ![t] = "loop"]
            /\ UNCHANGED <<log, results, idx, ret>>
    /\ UNCHANGED <<confVars, regVars, now, fsVars, op, cur, attempt, result,
                   dest_seen>>

\* for attempt in range(max_retries): ... await self._call_claude_api(...)
retry_loop(t) ==
    /\ pc[t] = "loop"
    /\ IF InRange(attempt[t], Get(max_retries, DefaultMaxRetries))
       THEN /\ log' = Logged(t, "call", attempt[t])
            /\ pc' = [pc EXCEPT ![t] = "calling"]
       ELSE /\ pc' = [pc EXCEPT ![t] = "writing"]
            /\ UNCHANGED log
    /\ UNCHANGED <<confVars, regVars, now, fsVars, op, cur, attempt, result,
                   idx, results, ret, dest_seen, prompt>>

\* The completion call returns text: result = ...; break
call_succeeds(t) ==
    /\ pc[t] = "calling"
    /\ \E r \in endpoint : result' = [result EXCEPT ![t] = r]
    /\ log' = Logged(t, "ok", attempt[t])
    /\ pc' = [pc EXCEPT ![t] = "writing"]
    /\ UNCHANGED <<confVars, regVars, now, fsVars, op, cur, attempt, idx,
                   results, ret, dest_seen, prompt>>

\* The completion call raises: back off and retry, or re-raise on the last.
call_fails(t) ==
    /\ pc[t] = "calling"
    /\ IF ShouldRetry(attempt[t], Get(max_retries, DefaultMaxRetries))
       THEN /\ log' = [log EXCEPT ![t] =
                         @ \o <<Event("fail", cur[t], attempt[t]),
                                Event("sleep", cur[t], Backoff(attempt[t]))>>]
            /\ pc' = [pc EXCEPT ![t] = "sleeping"]
            /\ UNCHANGED <<results, idx, ret>>
       ELSE /\ log' = Logged(t, "fail", attempt[t])
            /\ RaiseInPipeline(t, Msg("api", cur[t], attempt[t]))
    /\ UNCHANGED <<confVars, regVars, now, fsVars, op, cur, attempt, result,
                   dest_seen, prompt>>

\* Mutant of wake: the enabled flag is looked at again after every sleep, and
\* an agent disabled in the meantime is dropped as Skipped.
wake_rechecks_flag(t) ==
    /\ pc[t] = "sleeping"
    /\ IF IsEnabled(enabled[inst[t]], cur[t])
       THEN /\ attempt' = [attempt EXCEPT ![t] = @ + 1]
            /\ pc' = [pc EXCEPT ![t] = "loop"]
            /\ UNCHANGED <<results, idx, ret>>
       ELSE /\ Deliver(t, SkippedResult(cur[t]))
            /\ UNCHANGED attempt
    /\ UNCHANGED <<confVars, regVars, now, fsVars, op, cur, result, log,
                   dest_seen, prompt>>

\* asyncio.sleep returns; the for loop takes the next attempt.
wake(t) ==
    /\ pc[t] = "sleeping"
    /\ attempt' = [attempt EXCEPT ![t] = @ + 1]
    /\ pc' = [pc EXCEPT ![t] = "loop"]
    /\ UNCHANGED <<confVars, regVars, now, fsVars, op, cur, result, log, idx,
                   results, ret, dest_seen, prompt>>

\* Mutant of SkipsPersistence: the backup and the write are always entered.
SkipsPersistence_never(o) == FALSE

\* if output_file: is false for an agent with no destination.
SkipsPersistence(o) == o = NoValue

\* output_file = agent_config.get("output_file"); if output_file: ...
writing(t) ==
    /\ pc[t] = "writing"
    /\ pc' = [pc EXCEPT ![t] =
                IF SkipsPersistence(OutputFile(cur[t])) THEN "return" ELSE "backup"]
    /\ dest_seen' = [dest_seen EXCEPT ![t] =
                       IF OutputFile(cur[t]) # NoValue
                       THEN files[OutputFile(cur[t])] ELSE Absent]
    /\ UNCHANGED <<confVars, regVars, now, fsVars, op, cur, attempt, result, log,
                   idx, results, ret, prompt>>

\* Does shutil.copy2 raising leave _backup_file as an exception?
BackupFailureRaises(r) == r = "ai_agents"

\* backup_path = f"{file_path}.backup_{timestamp}"
BackupPath(o, ts) == <<o, ts>>

\* Mutant of copy2: nothing is copied.
copy2_nothing(bk, content, dst) == bk

\* shutil.copy2(file_path, backup_path), when it succeeds.
copy2(bk, content, dst) == [bk EXCEPT ![dst] = content]

\* _backup_file(output_file)
backup_file(t) ==
    LET o == OutputFile(cur[t]) IN
    /\ pc[t] = "backup"
    /\ IF ~Get(backup_flag, BackupDefault(rev)) \/ files[o] = Absent
       THEN /\ pc' = [pc EXCEPT ![t] = "write"]
            /\ UNCHANGED <<backups, log, results, idx, ret>>
       ELSE \/ /\ backups' = copy2(backups, files[o], BackupPath(o, now))
               /\ log' = Logged(t, "backup", now)
               /\ pc' = [pc EXCEPT ![t] = "write"]
               /\ UNCHANGED <<results, idx, ret>>
            \/ /\ log' = Logged(t, "backup_fail", now)
               /\ UNCHANGED backups
               /\ IF BackupFailureRaises(rev)
                  THEN RaiseInPipeline(t, Msg("backup", cur[t], -1))
                  ELSE /\ pc' = [pc EXCEPT ![t] = "write"]
                       /\ UNCHANGED <<results, idx, ret>>
    /\ UNCHANGED <<confVars, regVars, now, files, op, cur, attempt, result,
                   dest_seen, prompt>>

\* The try block after the backup: clean, json.loads, write the file.
\* result is unbound when the retry loop ran zero times.
write_output(t) ==
    LET o == OutputFile(cur[t]) IN
    /\ pc[t] = "write"
    /\ IF result[t] = Absent
       THEN /\ log' = Logged(t, "unbound_result", -1)
            /\ RaiseInPipeline(t, Msg("unbound_result", cur[t], -1))
            /\ UNCHANGED files
       ELSE \/ LET text == Persisted(result[t]) IN
               IF EncodablePrefix(text) = text
               THEN /\ files' = [files EXCEPT ![o] = text]
                    /\ log' = Logged(t, "write", now)
                    /\ pc' = [pc EXCEPT ![t] = "return"]
                    /\ UNCHANGED <<results, idx, ret>>
               ELSE /\ files' = [files EXCEPT ![o] = EncodablePrefix(text)]
                    /\ log' = Logged(t, "encode_fail", now)
                    /\ RaiseInPipeline(t, Msg("encode", cur[t], -1))
            \/ /\ log' = Logged(t, "write_fail", now)
               /\ UNCHANGED files
               /\ RaiseInPipeline(t, Msg("write", cur[t], -1))
    /\ UNCHANGED <<confVars, regVars, now, backups, op, cur, attempt, result,
                   dest_seen, prompt>>

\* return {"agent_id": ..., "status": "success", ...}
return_success(t) ==
    /\ pc[t] = "return"
    /\ IF result[t] = Absent
       THEN /\ log' = Logged(t, "unbound_result", -1)
            /\ RaiseInPipeline(t, Msg("unbound_result", cur[t], -1))
       ELSE /\ Deliver(t, SuccessResult(cur[t], result[t]))
            /\ UNCHANGED log
    /\ UNCHANGED <<confVars, regVars, now, fsVars, op, cur, attempt, result,
                   dest_seen, prompt>>

\* Mutant of append_skipped: a disabled agent is left out of the list.
append_skipped_omitted(rs, a) == rs

\* results.append({"agent_id": ..., "status": "skipped", ...})
append_skipped(rs, a) == Append(rs, SkippedResult(a))

\* A caller invokes execute_all_agents().
call_execute_all_agents(t) ==
    /\ pc[t] = "idle"
    /\ system[inst[t]] = "ready"
    /\ op' = [op EXCEPT ![t] = "execute_all_agents"]
    /\ cur' = [cur EXCEPT ![t] = NoValue]
    /\ attempt' = [attempt EXCEPT ![t] = 0]
    /\ result' = [result EXCEPT ![t] = Absent]
    /\ log' = [log EXCEPT ![t] = <<>>]
    /\ results' = [results EXCEPT ![t] = <<>>]
    /\ idx' = [idx EXCEPT ![t] = 1]
    /\ ret' = [ret EXCEPT ![t] = NoRet]
    /\ pc' = [pc EXCEPT ![t] = "ea_loop"]
    /\ dest_seen' = [dest_seen EXCEPT ![t] = Absent]
    /\ prompt' = [prompt EXCEPT ![t] = <<>>]
    /\ UNCHANGED <<confVars, regVars, now, fsVars>>

\* Mutant of AgentAt: the agents are taken in the reverse order.
AgentAt_reversed(i) == Registry[Len(Registry) + 1 - i]

\* agents.items(): the i-th agent of the mapping, in insertion order.
AgentAt(i) == Registry[i]

\* for agent_id, agent_config in agents.items(): ...; return results
execute_all_agents(t) ==
    /\ pc[t] = "ea_loop"
    /\ IF idx[t] > Len(Registry)
       THEN /\ ret' = [ret EXCEPT ![t] = Returned(results[t])]
            /\ pc' = [pc EXCEPT ![t] = "idle"]
            /\ UNCHANGED <<cur, attempt, result, results, idx, prompt>>
       ELSE LET a == AgentAt(idx[t]) IN
            IF IsEnabled(enabled[inst[t]], a)
            THEN /\ cur' = [cur EXCEPT ![t] = a]
                 /\ attempt' = [attempt EXCEPT ![t] = 0]
                 /\ result' = [result EXCEPT ![t] = Absent]
                 /\ prompt' = [prompt EXCEPT ![t] = <<>>]
                 /\ pc' = [pc EXCEPT ![t] = "execute_agent"]
                 /\ UNCHANGED <<results, idx, ret>>
            ELSE /\ results' = [results EXCEPT ![t] = append_skipped(@, a)]
                 /\ idx' = [idx EXCEPT ![t] = @ + 1]
                 /\ UNCHANGED <<cur, attempt, result, pc, ret, prompt>>
    /\ UNCHANGED <<confVars, regVars, now, fsVars, op, log, dest_seen>>

\* Does a failing write of the configuration document leave _save_config
\* as an exception?
SaveFailureRaises(r) == r = "ai_agents"

\* Mutant of json_dump_config: only the flag that was set is merged into the
\* document on disk.
json_dump_config_merged(mem, disk, id) == [disk EXCEPT ![id] = mem[id]]

\* open(self.config_path, "w"); json.dump(self.config, f, indent=2): the
\* whole in-memory document replaces the file.
json_dump_config(mem, disk, id) == mem

\* Mutant of set_flag: the assignment is lost.
set_flag_lost(flags, id, b) == flags

\* self.config["agents"][agent_id]["enabled"] = b
set_flag(flags, id, b) == [flags EXCEPT ![id] = b]

\* enable_agent(agent_id) (b = TRUE) and disable_agent(agent_id) (b = FALSE),
\* with the _save_config they end in.  Neither suspends.
set_enabled(t, id, b) ==
    /\ pc[t] = "idle"
    /\ system[inst[t]] = "ready"
    /\ op' = [op EXCEPT ![t] = IF b THEN "enable_agent" ELSE "disable_agent"]
    /\ cur' = [cur EXCEPT ![t] = id]
    /\ IF id \notin AgentIds
       THEN /\ ret' = [ret EXCEPT ![t] = ReturnedBool(FALSE)]
            /\ log' = [log EXCEPT ![t] = <<>>]
            /\ UNCHANGED regVars
       ELSE /\ enabled' = [enabled EXCEPT ![inst[t]] = set_flag(@, id, b)]
            /\ \/ /\ disk_enabled' = json_dump_config(enabled'[inst[t]], disk_enabled, id)
                  /\ log' = [log EXCEPT ![t] = <<Event("save", id, -1)>>]
                  /\ ret' = [ret EXCEPT ![t] = ReturnedBool(TRUE)]
               \/ /\ UNCHANGED disk_enabled
                  /\ log' = [log EXCEPT ![t] = <<Event("save_fail", id, -1)>>]
                  /\ ret' = [ret EXCEPT ![t] =
                               IF SaveFailureRaises(rev)
                               THEN Raised(Msg("save", id, -1))
                               ELSE ReturnedBool(TRUE)]
    /\ attempt' = [attempt EXCEPT ![t] = 0]
    /\ result' = [result EXCEPT ![t] = Absent]
    /\ results' = [results EXCEPT ![t] = <<>>]
    /\ idx' = [idx EXCEPT ![t] = 0]
    /\ prompt' = [prompt EXCEPT ![t] = <<>>]
    /\ UNCHANGED <<confVars, now, fsVars, pc, dest_seen>>

\* A second of wall-clock time passes.
Tick ==
    /\ now < MaxClock
    /\ now' = now + 1
    /\ UNCHANGED <<confVars, regVars, fsVars, pc, op, cur, attempt, result, log,
                   idx, results, ret, dest_seen, prompt>>

\* The statements of a running execution, one stretch at a time.
Frame(t) ==
    \/ execute_agent(t)
    \/ assemble(t)
    \/ retry_loop(t)
    \/ call_succeeds(t)
    \/ call_fails(t)
    \/ wake(t)
    \/ writing(t)
    \/ backup_file(t)
    \/ write_output(t)
    \/ return_success(t)

Step(t) ==
    \/ \E id \in AllIds : call_execute_agent(t, id)
    \/ call_execute_all_agents(t)
    \/ execute_all_agents(t)
    \/ Frame(t)

\* One caller at a time: the calls of one client, each awaited in turn.
Next == Step("t1") \/ Tick

Spec == Init /\ [][Next]_vars

\* ------------------------------------------------------------ construction
\* Mutant of load_config: a document that cannot be read gives an empty one.
load_config_lenient(r, doc) == NoMsg

\* _load_config: the exception it raises, NoMsg when it returns the document.
\* ai_agent_system.py re-raises under its own messages; ai_agents.py lets
\* those of open() and json.load() through.
load_config(r, doc) ==
    IF doc = "missing" THEN Msg("FileNotFoundError", NoValue, -1)
    ELSE IF doc = "invalid"
         THEN IF r = "ai_agents" THEN Msg("JSONDecodeError", NoValue, -1)
              ELSE Msg("ValueError: Invalid JSON", NoValue, -1)
    ELSE NoMsg

\* AIAgentSystem(): __init__ loads the document; an exception leaves the
\* constructor and no object exists.
construct(i) ==
    /\ system[i] = "unborn"
    /\ IF load_config(rev, config_doc) # NoMsg
       THEN /\ system' = [system EXCEPT ![i] = "failed"]
            /\ boot_error' = [boot_error EXCEPT ![i] = load_config(rev, config_doc)]
            /\ UNCHANGED enabled
       ELSE /\ system' = [system EXCEPT ![i] = "ready"]
            /\ enabled' = [enabled EXCEPT ![i] = disk_enabled]
            /\ UNCHANGED boot_error
    /\ UNCHANGED <<rev, inst, max_retries, backup_flag, templates, inputs,
                   config_doc, endpoint, disk_enabled, now, fsVars, pc, op, cur,
                   attempt, result, log, idx, results, ret, dest_seen, prompt>>

\* The process starts: nothing is constructed yet, and the document is
\* well-formed, malformed or not there.
InitBoot ==
    /\ rev \in Revisions
    /\ inst = [t \in Tasks |-> "s1"]
    /\ config_doc \in {"valid", "invalid", "missing"}
    /\ system = [i \in Instances |-> "unborn"]
    /\ boot_error = [i \in Instances |-> NoMsg]
    /\ enabled = [i \in Instances |-> [a \in AgentIds |-> FALSE]]
    /\ disk_enabled = [a \in AgentIds |-> TRUE]
    /\ max_retries = <<2>>
    /\ backup_flag = <<TRUE>>
    /\ files = [o \in Paths |-> OldContent]
    /\ templates = [p \in TemplatePaths |-> Absent]
    /\ inputs = [i \in InputPaths |-> <<"doc">>]
    /\ endpoint = CommonReplies
    /\ Booted

NextBoot ==
    \/ \E i \in Instances : construct(i)
    \/ Next

SpecBoot == InitBoot /\ [][NextBoot]_vars

\* ------------------------------------------------------------ every reply
\* The pipeline over every kind of reply, with the settings fixed: two
\* attempts, backups on, a destination that exists.
InitOutput ==
    /\ rev \in Revisions
    /\ inst = [t \in Tasks |-> "s1"]
    /\ enabled = [i \in Instances |-> [a \in AgentIds |-> TRUE]]
    /\ disk_enabled = [a \in AgentIds |-> TRUE]
    /\ max_retries = <<2>>
    /\ backup_flag = <<TRUE>>
    /\ files = [o \in Paths |-> OldContent]
    /\ templates = [p \in TemplatePaths |-> Absent]
    /\ inputs = [i \in InputPaths |-> <<"doc">>]
    /\ endpoint = Replies
    /\ Constructed
    /\ Booted

SpecOutput == InitOutput /\ [][Next]_vars

\* ---------------------------------------------------------- prompt inputs
\* The pipeline over every kind of template file and input file, with the
\* settings fixed: two attempts, backups on, a destination that exists.
InitPrompt ==
    /\ rev \in Revisions
    /\ inst = [t \in Tasks |-> "s1"]
    /\ enabled = [i \in Instances |-> [a \in AgentIds |-> TRUE]]
    /\ disk_enabled = [a \in AgentIds |-> TRUE]
    /\ max_retries = <<2>>
    /\ backup_flag = <<TRUE>>
    /\ files = [o \in Paths |-> OldContent]
    /\ templates \in [TemplatePaths -> TemplateContents]
    /\ inputs \in [InputPaths -> InputContents]
    /\ endpoint = CommonReplies
    /\ Constructed
    /\ Booted

SpecPrompt == InitPrompt /\ [][Next]_vars

\* ------------------------------------------------------ registry mutation
\* Two AIAgentSystem objects, each constructed from the same configuration
\* document, each used by one caller.
InitRegistry ==
    /\ rev \in Revisions
    /\ inst = [t \in Tasks |-> IF t = "t1" THEN "s1" ELSE "s2"]
    /\ \E e \in [AgentIds -> BOOLEAN] :
          /\ enabled = [i \in Instances |-> e]
          /\ disk_enabled = e
    /\ max_retries = <<>>
    /\ backup_flag = <<>>
    /\ files = [o \in Paths |-> Absent]
    /\ templates = [p \in TemplatePaths |-> Absent]
    /\ inputs = [i \in InputPaths |-> Absent]
    /\ endpoint = CommonReplies
    /\ Constructed
    /\ Booted

NextRegistry == \E t \in Tasks, id \in AllIds, b \in BOOLEAN : set_enabled(t, id, b)

SpecRegistry == InitRegistry /\ [][NextRegistry]_vars

\* ------------------------------------------------- reading a call's history
\* The effective retry bound: the configured value, 3 when the key is absent.
ConfiguredRetries == IF max_retries = <<>> THEN 3 ELSE max_retries[1]

Pos(a) == CHOOSE i \in 1..Len(Registry) : Registry[i] = a

\* The events the frame of agent a logged in the current call of task t.
EventsOf(t, a) == SelectSeq(log[t], LAMBDA e : e.agent = a)
IsCallStage(e) == e.ev \in {"call", "fail", "sleep", "ok"}
CallStage(t, a) == SelectSeq(EventsOf(t, a), IsCallStage)
Count(seq, ev) == Cardinality({i \in 1..Len(seq) : seq[i].ev = ev})
Last(seq) == seq[Len(seq)]

\* execute_agent(a) has handed its record to its caller.
HasResult(t, a) ==
    \/ /\ op[t] = "execute_agent" /\ pc[t] = "idle" /\ cur[t] = a
       /\ ret[t].kind = "return" /\ Len(ret[t].val) = 1
    \/ /\ op[t] = "execute_all_agents" /\ a \in AgentIds
       /\ Pos(a) <= Len(IF pc[t] = "idle" THEN ret[t].val ELSE results[t])
ResultOf(t, a) ==
    IF op[t] = "execute_agent" THEN ret[t].val[1]
    ELSE IF pc[t] = "idle" THEN ret[t].val[Pos(a)] ELSE results[t][Pos(a)]

\* k failed attempts, each followed by its backoff sleep of 2^i.
RECURSIVE FailedRounds(_, _)
FailedRounds(a, k) ==
    IF k <= 0 THEN <<>>
    ELSE FailedRounds(a, k - 1)
         \o <<Event("call", a, k - 1), Event("fail", a, k - 1),
              Event("sleep", a, 2 ^ (k - 1))>>

C2_DisabledIsSkipped ==
    \A t \in Tasks :
        (op[t] = "execute_agent" /\ cur[t] \in AgentIds
            /\ ~enabled[inst[t]][cur[t]])
        => /\ pc[t] \in {"execute_agent", "idle"}
           /\ log[t] = <<>>
           /\ pc[t] = "idle" => ret[t] = Returned(<<SkippedResult(cur[t])>>)

C2_Witness ==
    \E t \in Tasks :
        /\ op[t] = "execute_agent" /\ pc[t] = "idle" /\ cur[t] \in AgentIds
        /\ ~enabled[inst[t]][cur[t]]
        /\ ret[t].kind = "return" /\ ret[t].val[1].status = "skipped"

\* C3: execute_all_agents returns one record per agent of the registry, in
\* registry order, the i-th carrying the i-th id; a disabled agent is there
\* as a Skipped record.
C3_OneResultPerAgentInOrder ==
    \A t \in Tasks :
        op[t] = "execute_all_agents"
        => /\ \A i \in 1..Len(results[t]) : results[t][i].agent_id = Registry[i]
           /\ pc[t] = "idle"
              => /\ ret[t].kind = "return"
                 /\ Len(ret[t].val) = Len(Registry)
                 /\ \A i \in 1..Len(Registry) :
                       /\ ret[t].val[i].agent_id = Registry[i]
                       /\ ~enabled[inst[t]][Registry[i]]
                          => ret[t].val[i] = SkippedResult(Registry[i])

C3_Witness ==
    \E t \in Tasks :
        /\ op[t] = "execute_all_agents" /\ pc[t] = "idle"
        /\ Len(ret[t].val) = Len(Registry)
        /\ ret[t].val[1].status = "skipped"
        /\ ret[t].val[2].status = "success"

\* How far a call of execute_all_agents has come: the agent it is at, then
\* the attempt and the position inside that agent's frame.
Rank(p) ==
    CASE p = "execute_agent" -> 1 [] p = "assemble" -> 2 [] p = "loop" -> 3
      [] p = "calling" -> 4 [] p = "sleeping" -> 5 [] p = "writing" -> 6
      [] p = "backup" -> 7 [] p = "write" -> 8 [] p = "return" -> 9
      [] OTHER -> 0
Progress(t) ==
    idx[t] * 1000
    + (IF pc[t] = "ea_loop" THEN 0 ELSE 1 + attempt[t] * 10 + Rank(pc[t]))

\* The positions at which the coroutine has a next statement to run.
InFlight ==
    {"execute_agent", "assemble", "loop", "calling", "sleeping", "writing",
     "backup", "write", "return", "ea_loop"}

C4_ResultComplete ==
    \A t \in Tasks :
        op[t] = "execute_all_agents"
        => /\ pc[t] \in InFlight \cup {"idle"}
           /\ pc[t] = "idle"
              => /\ ret[t].kind = "return"
                 /\ Len(ret[t].val) = Len(Registry)
                 /\ \A i \in 1..Len(Registry) :
                       ret[t].val[i].status = "error"
                       => \A j \in (i + 1)..Len(Registry) :
                             /\ ret[t].val[j].agent_id = Registry[j]
                             /\ enabled[inst[t]][Registry[j]]
                                => ret[t].val[j].status \in {"success", "error"}

C4_EveryStepAdvances ==
    \A t \in Tasks :
        (op[t] = "execute_all_agents" /\ pc[t] # "idle"
            /\ <<pc[t], idx[t], attempt[t]>>' # <<pc[t], idx[t], attempt[t]>>)
        => pc'[t] = "idle" \/ Progress(t)' > Progress(t)

\* C4: execute_all_agents never aborts early: after an agent ended Errored,
\* whatever stage failed, the agents after it are still processed; the call
\* always has a next statement to run, every step of it advances through the
\* bounded loops, and it ends by returning one record per agent.
C4_NeverAbortsEarly == []C4_ResultComplete /\ [][C4_EveryStepAdvances]_vars

C4_Witness ==
    \E t \in Tasks :
        /\ op[t] = "execute_all_agents" /\ pc[t] = "idle"
        /\ Len(ret[t].val) = Len(Registry)
        /\ ret[t].val[1].status = "error"
        /\ ret[t].val[1].error.kind = "write"
        /\ ret[t].val[2].status = "success"

\* What the last event of a frame says was raised out of _execute_agent.
RaisingEvents ==
    {"input_unreadable", "template_invalid", "fail", "backup_fail",
     "write_fail", "encode_fail", "unbound_result"}
RaisedBy(e) ==
    IF e.ev = "fail" THEN Msg("api", e.agent, e.n)
    ELSE IF e.ev = "backup_fail" THEN Msg("backup", e.agent, -1)
    ELSE IF e.ev = "write_fail" THEN Msg("write", e.agent, -1)
    ELSE IF e.ev = "encode_fail" THEN Msg("encode", e.agent, -1)
    ELSE Msg(e.ev, e.agent, -1)

\* C5: for a known, enabled agent execute_agent returns exactly one record,
\* Success or Errored; a failure raised by Assembling, Calling or Writing
\* comes back as Errored with that failure's message, and Success is
\* returned only when the last thing the execution did did not fail.
C5_StageFailureBecomesErrored ==
    \A t \in Tasks :
        (op[t] = "execute_agent" /\ pc[t] = "idle" /\ cur[t] \in AgentIds
            /\ enabled[inst[t]][cur[t]])
        => /\ ret[t].kind = "return"
           /\ Len(ret[t].val) = 1
           /\ LET r == ret[t].val[1]
                  failed == log[t] # <<>> /\ Last(log[t]).ev \in RaisingEvents
              IN  /\ r.agent_id = cur[t]
                  /\ r.status \in {"success", "error"}
                  /\ failed => r.status = "error" /\ r.error = RaisedBy(Last(log[t]))
                  /\ ~failed => r.status = "success" /\ r.error = NoMsg

C5_Witness ==
    \E t \in Tasks :
        /\ op[t] = "execute_agent" /\ pc[t] = "idle" /\ cur[t] \in AgentIds
        /\ ret[t].kind = "return"
        /\ ret[t].val[1].status = "error"
        /\ ret[t].val[1].error.kind = "write"
        /\ Count(log[t], "ok") = 1

\* The completion stage of a ended with a reply on attempt k + 1 after k
\* failures: k + 1 calls, k sleeps of 2^0 .. 2^(k-1), each between a failed
\* call and the next call.
RetriedThenReplied(t, a) ==
    LET cs == CallStage(t, a)
        k == Last(cs).n
    IN  /\ k >= 0 /\ k < ConfiguredRetries
        /\ cs = FailedRounds(a, k) \o <<Event("call", a, k), Event("ok", a, k)>>
        /\ Count(cs, "call") = k + 1
        /\ Count(cs, "sleep") = k

GotReply(t, a) == CallStage(t, a) # <<>> /\ Last(CallStage(t, a)).ev = "ok"

\* C6 (as claimed): k failures then a reply give k + 1 calls and k sleeps of
\* 2^0 .. 2^(k-1), each between a failed call and the next, and the result
\* is Success.  Stated for the executions whose backup copy does not fail,
\* which leaves aside what C10 is about.
C6_RetryThenSuccess ==
    \A t \in Tasks, a \in AgentIds :
        (GotReply(t, a) /\ Count(EventsOf(t, a), "backup_fail") = 0)
        => /\ RetriedThenReplied(t, a)
           /\ HasResult(t, a) => ResultOf(t, a).status = "success"

\* C6 (amended): k failures then a reply give k + 1 calls and k sleeps of
\* 2^0 .. 2^(k-1), each between a failed call and the next; the result is
\* Success unless the Writing stage that follows raises, and then it is
\* Errored with the message of that failure.
C6_RetryThenReply ==
    \A t \in Tasks, a \in AgentIds :
        GotReply(t, a)
        => /\ RetriedThenReplied(t, a)
           /\ HasResult(t, a)
              => LET r == ResultOf(t, a)
                     e == Last(EventsOf(t, a))
                 IN  /\ e.ev \in {"ok", "write"} => r.status = "success"
                     /\ e.ev \notin {"ok", "write"}
                        => /\ e.ev \in {"backup_fail", "write_fail", "encode_fail"}
                           /\ r.status = "error"
                           /\ r.error = RaisedBy(e)

C6_Witness ==
    \E t \in Tasks, a \in AgentIds :
        /\ ConfiguredRetries = 3
        /\ HasResult(t, a) /\ ResultOf(t, a).status = "success"
        /\ [i \in 1..Len(CallStage(t, a)) |-> CallStage(t, a)[i].ev]
              = <<"call", "fail", "sleep", "call", "fail", "sleep", "call", "ok">>
        /\ CallStage(t, a)[3].n = 1 /\ CallStage(t, a)[6].n = 2

\* C7: when all max_retries (at least one) attempts fail, execute_agent
\* returns Errored with the message of the failure of the final attempt, and
\* no sleep follows that failure.
C7_LastFailureSurfaces ==
    \A t \in Tasks, a \in AgentIds :
        LET cs == CallStage(t, a)
            m == ConfiguredRetries
        IN  (m >= 1 /\ Count(cs, "fail") = m)
            => /\ cs = FailedRounds(a, m - 1)
                       \o <<Event("call", a, m - 1), Event("fail", a, m - 1)>>
               /\ Count(cs, "sleep") = m - 1
               /\ Last(EventsOf(t, a)) = Event("fail", a, m - 1)
               /\ HasResult(t, a)
               /\ ResultOf(t, a).status = "error"
               /\ ResultOf(t, a).error = Msg("api", a, m - 1)

C7_Witness ==
    \E t \in Tasks, a \in AgentIds :
        /\ ConfiguredRetries = 3
        /\ Count(CallStage(t, a), "fail") = 3
        /\ HasResult(t, a)
        /\ ResultOf(t, a).status = "error"
        /\ ResultOf(t, a).error.at = 2

\* C8: one execution makes at most max_retries completion calls (3 when the
\* setting is absent; none when it is zero or negative), and none after the
\* first that succeeded.
C8_CallsBounded ==
    \A t \in Tasks, a \in AgentIds :
        LET cs == CallStage(t, a)
            m == IF ConfiguredRetries < 0 THEN 0 ELSE ConfiguredRetries
        IN  /\ Count(cs, "call") <= m
            /\ Count(cs, "ok") <= 1
            /\ \A i \in 1..Len(cs) : cs[i].ev = "ok" => i = Len(cs)

C8_Witness ==
    \E t \in Tasks, a \in AgentIds :
        /\ max_retries = <<>>
        /\ Count(CallStage(t, a), "call") = 3
        /\ Last(CallStage(t, a)).ev = "ok"
        /\ HasResult(t, a)

\* The write of the current frame of t has just succeeded.
JustWritten(t) ==
    /\ pc[t] = "return"
    /\ OutputFile(cur[t]) # NoValue
    /\ Last(EventsOf(t, cur[t])).ev = "write"

C10_BackupFailureNotFatal ==
    \A t \in Tasks, a \in AgentIds :
        LET ev == EventsOf(t, a) IN
        (HasResult(t, a) /\ Count(ev, "ok") = 1 /\ Count(ev, "backup_fail") = 1)
        => /\ Last(ev).ev \in {"write", "write_fail"}
           /\ Last(ev).ev = "write" => ResultOf(t, a).status = "success"
           /\ Last(ev).ev = "write_fail" => ResultOf(t, a).status = "error"

\* The frame of t's current agent got a reply, has a destination and has
\* handed its record back; result[t] still is that reply.
Persisting(t) ==
    /\ pc[t] \in {"idle", "ea_loop"}
    /\ cur[t] \in AgentIds
    /\ OutputFile(cur[t]) # NoValue
    /\ GotReply(t, cur[t])
    /\ HasResult(t, cur[t])

\* C11: for every reply, if the reply trimmed, rid of a leading json fence
\* and of a trailing fence and trimmed again parses as JSON, the destination
\* holds the value pretty-printed, otherwise it holds the reply verbatim; in
\* both cases the result is Success.  Stated for the executions in which the
\* file system refuses neither the backup copy nor the write.
C11_ParsedOrVerbatim ==
    \A t \in Tasks :
        LET ev == EventsOf(t, cur[t]) IN
        (Persisting(t) /\ Count(ev, "backup_fail") = 0
            /\ Count(ev, "write_fail") = 0)
        => LET r == result[t]
               v == JsonLoads(Cleaned(r))
           IN  /\ ResultOf(t, cur[t]).status = "success"
               /\ v # NoValue => files[OutputFile(cur[t])] = JsonDump(v)
               /\ v = NoValue => files[OutputFile(cur[t])] = r

\* t is inside, or has just left, the frame of an agent with no destination.
NoDestinationFrame(t) ==
    /\ cur[t] \in AgentIds
    /\ OutputFile(cur[t]) = NoValue
    /\ pc[t] \notin {"idle", "ea_loop", "execute_agent"}

C12_NothingPersisted ==
    \A t \in Tasks :
        (cur[t] \in AgentIds /\ OutputFile(cur[t]) = NoValue)
        => /\ pc[t] \notin {"backup", "write"}
           /\ \A i \in 1..Len(EventsOf(t, cur[t])) :
                 EventsOf(t, cur[t])[i].ev
                    \notin {"backup", "backup_fail", "write", "write_fail",
                             "encode_fail"}
           /\ (pc[t] \in {"idle", "ea_loop"} /\ GotReply(t, cur[t])
                 /\ HasResult(t, cur[t]))
              => ResultOf(t, cur[t])
                    = ResultRecord(cur[t], "success", NoValue, NoMsg, NoValue,
                                   Preview(result[t]))

C12_FilesUntouched ==
    \A t \in Tasks :
        (NoDestinationFrame(t) /\ pc'[t] # pc[t])
        => files' = files /\ backups' = backups

\* C12: for an agent with no output destination a successful completion
\* takes no backup and writes no file, and execute_agent returns Success
\* with no output file and the preview of the reply it holds in memory.
C12_NoDestinationNoPersistence ==
    []C12_NothingPersisted /\ [][C12_FilesUntouched]_vars

C12_Witness ==
    \E t \in Tasks :
        /\ op[t] = "execute_agent" /\ pc[t] = "idle" /\ cur[t] = "a2"
        /\ OutputFile("a2") = NoValue
        /\ GotReply(t, "a2")
        /\ ret[t].kind = "return"
        /\ ret[t].val[1].status = "success"
        /\ ret[t].val[1].result_preview = result[t]
        /\ files = [o \in Paths |-> OldContent]

\* The positions of a frame after its prompt was built.
Assembled == {"loop", "calling", "sleeping", "writing", "backup", "write", "return"}

\* The loader has nothing to give for the agent of t's frame: no path is
\* configured, or the file is missing, blank, or not JSON.
NoTemplateToLoad(t) ==
    LET tf == TemplateFile(cur[t]) IN
    \/ tf = NoValue
    \/ templates[tf] = Absent
    \/ Strip(templates[tf]) = <<>>
    \/ JsonLoads(Strip(templates[tf])) = NoValue

\* C13: template loading never gives a pipeline-visible error: with the
\* template path empty, or the file missing, blank or not valid JSON, the
\* execution goes on to the completion call with a prompt that has no
\* template block and does not end Errored over the template.
C13_TemplateNeverErrors ==
    \A t \in Tasks :
        (cur[t] \in AgentIds /\ NoTemplateToLoad(t))
        => /\ Count(EventsOf(t, cur[t]), "template_invalid") = 0
           /\ pc[t] \in Assembled
              => prompt[t]
                    = full_prompt(BasePrompt(cur[t]), NoValue,
                                  input_content(rev, cur[t], inputs))

\* The last call of t was enable_agent / disable_agent, and it is over.
Mutated(t) == op[t] \in {"enable_agent", "disable_agent"} /\ pc[t] = "idle"
Wanted(t) == op[t] = "enable_agent"
SaveAttempted(t) == Len(log[t]) = 1 /\ log[t][1].ev \in {"save", "save_fail"}
SaveFailed(t) == Len(log[t]) = 1 /\ log[t][1].ev = "save_fail"

\* C14: for a known id enable_agent / disable_agent return true, have set
\* the in-memory flag of the id to true / false and have run the save of the
\* document; for an unknown id they return false and run no save.
C14_SetEnabled ==
    \A t \in Tasks :
        Mutated(t)
        => IF cur[t] \in AgentIds
           THEN /\ ret[t] = ReturnedBool(TRUE)
                /\ enabled[inst[t]][cur[t]] = Wanted(t)
                /\ SaveAttempted(t)
           ELSE /\ ret[t] = ReturnedBool(FALSE)
                /\ log[t] = <<>>

\* C15: a failing save of the document is swallowed: the call for a known id
\* does not raise and returns true.
C15_SaveFailureSwallowed ==
    \A t \in Tasks :
        (Mutated(t) /\ cur[t] \in AgentIds /\ SaveFailed(t))
        => ret[t] = ReturnedBool(TRUE)

\* C16 (as claimed): after every completed enable_agent / disable_agent,
\* failed save or not, the document on disk has for every agent the flag the
\* caller's in-memory document has.  Stated for the moment a call returns.
C16_DiskEqualsMemory ==
    [][\A t \in Tasks, id \in AgentIds, b \in BOOLEAN :
          (set_enabled(t, id, b) /\ ret'[t].kind = "return")
          => \A a \in AgentIds : disk_enabled'[a] = enabled'[inst[t]][a]]_vars

\* C16 (amended): after every enable_agent / disable_agent for a known id
\* the caller's in-memory flag of the id has the new value; when the save
\* succeeded the document on disk has for every agent the flag of the
\* caller's in-memory document, and when it failed the two may differ.
C16_ReconvergeOnSuccessfulSave ==
    [][\A t \in Tasks, id \in AgentIds, b \in BOOLEAN :
          set_enabled(t, id, b)
          => /\ enabled'[inst[t]][id] = b
             /\ log'[t][1].ev = "save"
                => \A a \in AgentIds : disk_enabled'[a] = enabled'[inst[t]][a]]_vars

\* A save failed in the revision that swallows it: the call returned true,
\* memory has the new flag and the disk the old one.
C16_Witness ==
    \E t \in Tasks :
        /\ Mutated(t) /\ cur[t] \in AgentIds /\ SaveFailed(t)
        /\ ret[t] = ReturnedBool(TRUE)
        /\ enabled[inst[t]][cur[t]] = Wanted(t)
        /\ disk_enabled[cur[t]] # Wanted(t)

\* C17: the mutation is a read-modify-write without a lock or a re-read: a
\* save that succeeds replaces the document on disk by the writer's whole
\* in-memory document, whatever another object has written since the writer
\* loaded it, so the last write wins.
C17_LastWriteWins ==
    [][\A t \in Tasks, id \in AgentIds, b \in BOOLEAN :
          (set_enabled(t, id, b) /\ log'[t][1].ev = "save")
          => /\ enabled'[inst[t]] = [enabled[inst[t]] EXCEPT ![id] = b]
             /\ disk_enabled' = enabled'[inst[t]]]_vars

\* Both objects loaded the document with both agents enabled; s1 disabled a1
\* and saved, then s2 disabled a2 and saved: the disk has a1 enabled again.
C17_Witness ==
    /\ op = [t \in Tasks |-> "disable_agent"]
    /\ cur = [t \in Tasks |-> IF t = "t1" THEN "a1" ELSE "a2"]
    /\ \A t \in Tasks : ret[t] = ReturnedBool(TRUE) /\ log[t][1].ev = "save"
    /\ enabled["s1"] = [a \in AgentIds |-> a # "a1"]
    /\ enabled["s2"] = [a \in AgentIds |-> a # "a2"]
    /\ disk_enabled = enabled["s2"]
    /\ disk_enabled["a1"] # enabled["s1"]["a1"]

\* What the frame of t read from its input file: the file's own text, empty
\* when the revision does not look at the key or the file is not there.
InputRead(t) ==
    LET c == inputs[InputPath(cur[t])] IN
    IF ReadsInput(rev, cur[t]) /\ c \notin {Absent, Unreadable} THEN c ELSE <<>>

TemplateLoaded(t) ==
    LET tf == TemplateFile(cur[t]) IN
    IF tf = NoValue THEN NoValue ELSE load_template(tf, templates[tf])

\* C18: the prompt is the base prompt, then the template block iff a
\* template was loaded, then the document block iff non-empty input content
\* was read, in this order; with no input content there is no document block.
C18_PromptIsOrderedConcatenation ==
    \A t \in Tasks :
        (cur[t] \in AgentIds /\ pc[t] \in Assembled)
        => prompt[t]
              = BasePrompt(cur[t])
                \o (IF TemplateLoaded(t) # NoValue
                    THEN <<"nl", "nl",
                           "Use this exact JSON structure as your template:", "nl">>
                         \o JsonDump(TemplateLoaded(t))
                         \o <<"nl", "nl", "Fill in the values ...">>
                    ELSE <<>>)
                \o (IF InputRead(t) # <<>>
                    THEN <<"nl", "nl", "Document to analyze:", "nl">>
                         \o input_content(rev, cur[t], inputs)
                    ELSE <<>>)

\* The end-to-end example: an enabled agent with a prompt, an input file and
\* a destination got the JSON object in json fences for a reply, and the
\* file system refused nothing.
EndToEnd(t) ==
    /\ Persisting(t)
    /\ result[t] = FencedReply
    /\ Count(EventsOf(t, cur[t]), "backup_fail") = 0
    /\ Count(EventsOf(t, cur[t]), "write_fail") = 0

\* C19 (as claimed): in the end-to-end example the result is Success, the
\* destination holds the pretty-printed object, and the preview is the JSON
\* text without the markdown fences.
C19_PreviewWithoutFences ==
    \A t \in Tasks :
        EndToEnd(t)
        => LET r == ResultOf(t, cur[t]) IN
           /\ r.status = "success"
           /\ files[OutputFile(cur[t])] = <<"{a: 1}">>
           /\ \A i \in 1..Len(r.result_preview) : r.result_preview[i] # "FENCE"

\* C19 (amended): in the end-to-end example the result is Success, the
\* destination holds the pretty-printed object, and the preview is the
\* reply as the endpoint gave it, markdown fences included.
C19_PreviewIsRawReply ==
    \A t \in Tasks :
        EndToEnd(t)
        => LET r == ResultOf(t, cur[t]) IN
           /\ r.status = "success"
           /\ r.output_file = OutputFile(cur[t])
           /\ files[OutputFile(cur[t])] = <<"{a: 1}">>
           /\ r.result_preview = FencedReply

C19_Witness ==
    \E t \in Tasks :
        /\ op[t] = "execute_agent" /\ EndToEnd(t) /\ cur[t] = "a1"
        /\ inputs[InputPath("a1")] = <<"doc">>
        /\ ret[t].val[1].status = "success"
        /\ ret[t].val[1].result_preview[1] = "FENCE"
        /\ files["o1"] = <<"{a: 1}">>

\* C20: constructing the agent system fails with a missing-configuration
\* error when the document does not exist and with an invalid-configuration
\* error when it is not well-formed JSON; no object comes to exist, and no
\* pipeline operation ever runs on it.
C20_ConstructionFailsFatally ==
    /\ \A i \in Instances :
          /\ config_doc # "valid" => system[i] \in {"unborn", "failed"}
          /\ system[i] = "failed"
             => /\ config_doc = "missing"
                   => boot_error[i].kind = "FileNotFoundError"
                /\ config_doc = "invalid"
                   => boot_error[i].kind
                         \in {"JSONDecodeError", "ValueError: Invalid JSON"}
                /\ config_doc # "valid"
    /\ \A t \in Tasks :
          system[inst[t]] # "ready"
          => pc[t] = "idle" /\ op[t] = NoValue /\ ret[t] = NoRet

C20_Witness ==
    \E i \in Instances :
        /\ config_doc = "invalid"
        /\ system[i] = "failed"
        /\ boot_error[i].kind \in {"JSONDecodeError", "ValueError: Invalid JSON"}
        /\ \A t \in Tasks : inst[t] = i => op[t] = NoValue

\* ------------------------------------------------ one agent after another
\* The frame of agent b is running inside execute_all_agents.
FrameOf(t, b) ==
    /\ op[t] = "execute_all_agents"
    /\ pc[t] \notin {"idle", "ea_loop"}
    /\ cur[t] = b

\* C21: within one run of execute_all_agents the agents execute strictly one
\* after another: every call, sleep, backup and write of an agent comes after
\* every event of the agents before it in the registry, and while the frame
\* of an agent runs, each agent before it already has its terminal record
\* and no agent after it has done anything.
C21_AgentsRunOneAfterAnother ==
    \A t \in Tasks :
        op[t] = "execute_all_agents"
        => /\ \A k \in 1..Len(log[t]) : \A j \in 1..k :
                 Pos(log[t][j].agent) <= Pos(log[t][k].agent)
           /\ \A k \in 1..Len(log[t]) : \A a \in AgentIds :
                 Pos(a) < Pos(log[t][k].agent)
                 => /\ HasResult(t, a)
                    /\ ResultOf(t, a).agent_id = a
           /\ \A b \in AgentIds :
                 FrameOf(t, b)
                 => /\ Len(results[t]) = Pos(b) - 1
                    /\ \A k \in 1..Len(log[t]) :
                          Pos(log[t][k].agent) <= Pos(b)

C21_Witness ==
    \E t \in Tasks :
        /\ FrameOf(t, "a2") /\ pc[t] = "sleeping"
        /\ Count(EventsOf(t, "a1"), "sleep") = 1
        /\ Count(EventsOf(t, "a1"), "backup") = 1
        /\ Count(EventsOf(t, "a1"), "write") = 1
        /\ results[t][1].status = "success"

\* ------------------------------------------------- writing after calling
\* The completion endpoint has replied to the frame task t runs.
Replied(t) == Count(EventsOf(t, cur[t]), "ok") > 0

\* The frame of t is in the Writing stage: at the backup or at the write.
InWritingStage(t) == pc[t] \in {"backup", "write"}

\* What a frame logs when it copies a backup or opens the destination.
WritingEvents == {"backup", "backup_fail", "write", "write_fail", "encode_fail"}

C22_WritingFollowsReply ==
    \A t \in Tasks :
        /\ InWritingStage(t) => Replied(t)
        /\ \A k \in 1..Len(log[t]) :
              log[t][k].ev \in WritingEvents
              => \E j \in 1..(k - 1) :
                    /\ log[t][j].ev = "ok"
                    /\ log[t][j].agent = log[t][k].agent

C22_NoReplyNoEffect ==
    \A t \in Tasks :
        (pc[t] # "idle" /\ cur[t] \in AgentIds /\ ~Replied(t)')
        => UNCHANGED fsVars

\* C22: the Writing stage (backup and destination write) is entered only
\* after a completion call has succeeded; an execution in which no
\* completion call succeeded leaves the destination file and the set of
\* backup files exactly as they were.
C22_WritingOnlyAfterSuccessfulCall ==
    []C22_WritingFollowsReply /\ [][C22_NoReplyNoEffect]_vars

\* --------------------------------------------------------- backup files
\* The value of backup_original_files the running revision acts on.
BackupEnabled == Get(backup_flag, BackupDefault(rev))

\* Some frame overwrites the existing destination o in this step.
Overwrites(o) == files[o] # Absent /\ files'[o] # files[o]

C24_OverwriteLeavesBackup ==
    \A o \in Paths :
        (BackupEnabled /\ Overwrites(o))
        => \E ts \in 0..MaxClock : backups'[BackupPath(o, ts)] = files[o]

C24_BackupNeverReplaced ==
    \A k \in DOMAIN backups :
        backups[k] # Absent => backups'[k] = backups[k]

\* C24: backup files are purely additive: with backup enabled, every
\* overwrite of an existing destination leaves a backup holding the content
\* it replaced, and a backup file once created is never modified or replaced
\* by a later execution, two executions within one timestamp second included.
C24_BackupsPurelyAdditive ==
    [][C24_OverwriteLeavesBackup /\ C24_BackupNeverReplaced]_vars

\* ------------------------------------------------------- no attempts at all
\* C27: with max_retries configured as 0 or negative, executing an enabled
\* agent makes no completion call and no sleep, writes nothing to the
\* destination, creates no backup, and ends in an Errored record, never in
\* a Success.
C27_ZeroRetriesDoesNothing ==
    \A t \in Tasks :
        (max_retries # <<>> /\ max_retries[1] <= 0
            /\ op[t] \in {"execute_agent", "execute_all_agents"})
        => /\ Count(log[t], "call") = 0
           /\ Count(log[t], "sleep") = 0
           /\ Count(log[t], "write") = 0
           /\ Count(log[t], "encode_fail") = 0
           /\ Count(log[t], "backup") = 0
           /\ files["o1"] \in {Absent, OldContent}
           /\ \A k \in DOMAIN backups : backups[k] = Absent
           /\ \A a \in AgentIds :
                 (HasResult(t, a) /\ enabled[inst[t]][a])
                 => ResultOf(t, a).status = "error"

\* ----------------------------------------------------- fences, one by one
\* The frame of t persisted its reply and the file system refused nothing.
PersistedCleanly(t) ==
    /\ Persisting(t)
    /\ Count(EventsOf(t, cur[t]), "backup_fail") = 0
    /\ Count(EventsOf(t, cur[t]), "write_fail") = 0
    /\ Count(EventsOf(t, cur[t]), "encode_fail") = 0

\* C30: the two fences are stripped independently.  A trailing fence is
\* removed even when the reply has no leading json fence, so the object
\* followed by a closing fence alone is parsed and pretty-printed; a leading
\* plain fence, without the json tag, is not removed, so the object in plain
\* fences fails to parse and is persisted verbatim, with status Success.
C30_FencesStrippedIndependently ==
    \A t \in Tasks :
        PersistedCleanly(t)
        => LET r == result[t]
               o == OutputFile(cur[t])
           IN  /\ ResultOf(t, cur[t]).status = "success"
               /\ r = CloseFencedReply => files[o] = <<"{a: 1}">>
               /\ r = PlainFencedReply => files[o] = PlainFencedReply
               /\ (Strip(r)[1] = "FENCE" /\ Strip(r)[2] # "json")
                  => /\ JsonLoads(Cleaned(r)) = NoValue
                     /\ files[o] = r

C30_Witness ==
    \E t \in Tasks :
        /\ PersistedCleanly(t)
        /\ result[t] = PlainFencedReply
        /\ files["o1"] = PlainFencedReply
        /\ ResultOf(t, cur[t]).status = "success"
        /\ ResultOf(t, cur[t]).result_preview = PlainFencedReply

\* --------------------------------------------------------- input sources
\* The input sources the document configures for agent a, under either key.
ConfiguredSources(a) == <<InputPath(a)>>

\* The document block as claimed: the content of every configured source
\* that exists, in configured order, each under a header naming its path
\* only when more than one source is configured.
RECURSIVE ClaimedContent(_, _, _)
ClaimedContent(srcs, many, ins) ==
    IF srcs = <<>> THEN <<>>
    ELSE LET c == ins[Head(srcs)]
             part == IF c = Absent THEN <<>>
                     ELSE IF many
                          THEN <<"--- Content from ", Head(srcs), " ---", "nl">>
                               \o c \o <<"nl">>
                          ELSE c
         IN  part \o ClaimedContent(Tail(srcs), many, ins)

\* C26: every configured input source of an agent, given under input_file or
\* under input_files, that exists on disk contributes its content to the
\* document block of the prompt, in configured order; a file's content is
\* prefixed with its path only when more than one file is configured, and
\* a missing file is skipped without error.
C26_EverySourceContributes ==
    \A t \in Tasks :
        LET a == cur[t] IN
        (a \in AgentIds
            /\ \A i \in 1..Len(ConfiguredSources(a)) :
                  inputs[ConfiguredSources(a)[i]] # Unreadable)
        => /\ Count(EventsOf(t, a), "input_unreadable") = 0
           /\ pc[t] \in Assembled
              => prompt[t]
                    = full_prompt(BasePrompt(a), TemplateLoaded(t),
                                  ClaimedContent(ConfiguredSources(a),
                                                 Len(ConfiguredSources(a)) > 1,
                                                 inputs))

\* ------------------------------------------- one process, one event loop
\* Mutant of read_registry: listing writes the default flag back into the
\* registry.
read_registry_resets(t) ==
    /\ enabled' = [enabled EXCEPT ![inst[t]] = [a \in AgentIds |-> TRUE]]
    /\ UNCHANGED disk_enabled

\* config.get("enabled", True) for each agent: the registry is only read.
read_registry(t) == UNCHANGED regVars

\* list_agents(): one entry per agent of the registry; it changes nothing.
list_agents(t) ==
    /\ pc[t] = "idle"
    /\ system[inst[t]] = "ready"
    /\ op' = [op EXCEPT ![t] = "list_agents"]
    /\ cur' = [cur EXCEPT ![t] = NoValue]
    /\ ret' = [ret EXCEPT ![t] =
                 Returned([i \in 1..Len(Registry) |->
                             [agent_id |-> Registry[i], status |-> "listed",
                              enabled |-> enabled[inst[t]][Registry[i]]]])]
    /\ log' = [log EXCEPT ![t] = <<>>]
    /\ attempt' = [attempt EXCEPT ![t] = 0]
    /\ result' = [result EXCEPT ![t] = Absent]
    /\ results' = [results EXCEPT ![t] = <<>>]
    /\ idx' = [idx EXCEPT ![t] = 0]
    /\ prompt' = [prompt EXCEPT ![t] = <<>>]
    /\ read_registry(t)
    /\ UNCHANGED <<confVars, now, fsVars, pc, dest_seen>>

\* Mutant of SuspensionPoints: the execution also yields between its backup
\* and its write.
SuspensionPoints_before_write == {"calling", "sleeping", "write"}

\* The positions at which a coroutine is suspended: the await of the
\* completion call and the await of asyncio.sleep.
SuspensionPoints == {"calling", "sleeping"}

\* The event loop can run task t: every other coroutine is suspended at an
\* await, or has no call in progress.
LoopRuns(t) ==
    \A u \in Tasks \ {t} : pc[u] = "idle" \/ pc[u] \in SuspensionPoints

\* The server process: the requests of two clients are coroutines on one
\* event loop and share the one AIAgentSystem.  Caller t1 executes and
\* lists, caller t2 enables and disables.
InitLoop ==
    /\ rev \in Revisions
    /\ inst = [t \in Tasks |-> "s1"]
    /\ enabled = [i \in Instances |-> [a \in AgentIds |-> TRUE]]
    /\ disk_enabled = [a \in AgentIds |-> TRUE]
    /\ max_retries = <<2>>
    /\ backup_flag = <<TRUE>>
    /\ files = [o \in Paths |-> OldContent]
    /\ templates = [p \in TemplatePaths |-> Absent]
    /\ inputs = [i \in InputPaths |-> <<"doc">>]
    /\ endpoint = CommonReplies
    /\ Constructed
    /\ Booted

NextLoop ==
    \/ LoopRuns("t1") /\ Step("t1")
    \/ LoopRuns("t1") /\ list_agents("t1")
    \/ \E id \in AllIds, b \in BOOLEAN : LoopRuns("t2") /\ set_enabled("t2", id, b)

SpecLoop == InitLoop /\ [][NextLoop]_vars

\* ------------------------------------------------- who changes the registry
\* What task t holds of its own: its position, its call and its locals.
Locals(t) ==
    <<pc[t], op[t], cur[t], attempt[t], result[t], log[t], idx[t], results[t],
      ret[t], dest_seen[t], prompt[t]>>

\* This step belongs to an execution or a listing of task t.
ReadOnlyStep(t) ==
    /\ Locals(t)' # Locals(t)
    /\ op'[t] \in {"execute_agent", "execute_all_agents", "list_agents"}

C23_ReadersLeaveRegistry ==
    /\ \A t \in Tasks : ReadOnlyStep(t) => UNCHANGED regVars
    /\ regVars' # regVars
       => \E t \in Tasks, a \in AgentIds :
             /\ pc[t] = "idle" /\ pc'[t] = "idle"
             /\ op'[t] \in {"enable_agent", "disable_agent"}
             /\ cur'[t] = a
             /\ \A i \in Instances, b \in AgentIds \ {a} :
                   enabled'[i][b] = enabled[i][b]

C23_NoAgentRemoved ==
    /\ \A i \in Instances : DOMAIN enabled[i] = AgentIds
    /\ DOMAIN disk_enabled = AgentIds

\* C23: agent definitions are mutated only by enable_agent and disable_agent:
\* every step of execute_agent, execute_all_agents and list_agents, whatever
\* the outcome, leaves the registry in memory and the document on disk
\* unchanged, and no operation removes an agent from the registry.
C23_OnlyEnableDisableMutate ==
    []C23_NoAgentRemoved /\ [][C23_ReadersLeaveRegistry]_vars

C23_Witness ==
    /\ op["t1"] = "execute_all_agents" /\ pc["t1"] = "idle"
    /\ ret["t1"].kind = "return"
    /\ ret["t1"].val[1].status = "error"
    /\ ret["t1"].val[2].status = "skipped"
    /\ op["t2"] = "disable_agent" /\ cur["t2"] = "a2"
    /\ ~enabled["s1"]["a2"] /\ enabled["s1"]["a1"]
    /\ disk_enabled = enabled["s1"]

\* ------------------------------------------- the flag is read at the gate
\* The execution of agent a that handed back its record ran to its end: it
\* stopped neither at a call or a sleep nor after a failure that was not the
\* last attempt, and a reply for an agent with a destination went on to the
\* Writing stage.
RanToItsEnd(t, a) ==
    LET ev == EventsOf(t, a) IN
    /\ Last(ev).ev \notin {"call", "sleep"}
    /\ Last(ev).ev = "fail" => Count(ev, "call") = ConfiguredRetries
    /\ (Count(ev, "ok") = 1 /\ OutputFile(a) # NoValue)
       => Last(ev).ev \in WritingEvents

C28_GateDecidesOnce ==
    \A t \in Tasks : \A a \in AgentIds :
        (op[t] \in {"execute_agent", "execute_all_agents"} /\ HasResult(t, a))
        => /\ ResultOf(t, a).status = "skipped" => EventsOf(t, a) = <<>>
           /\ EventsOf(t, a) # <<>>
              => /\ ResultOf(t, a).status \in {"success", "error"}
                 /\ RanToItsEnd(t, a)

C28_DisabledAtItsTurnIsSkipped ==
    \A t \in Tasks :
        (pc[t] = "ea_loop" /\ idx[t] <= Len(Registry) /\ Locals(t)' # Locals(t)
            /\ ~enabled[inst[t]][Registry[idx[t]]])
        => /\ results'[t] = Append(results[t], SkippedResult(Registry[idx[t]]))
           /\ log'[t] = log[t]
           /\ pc'[t] = "ea_loop"

\* C28: the enabled flag is read once per execution, at the gate.  An agent
\* disabled while its execution is suspended in a completion call or a sleep
\* is not cancelled: the execution makes its remaining attempts and writes
\* its output, and only an execution that did nothing is Skipped.  In
\* execute_all_agents an agent that is disabled when its turn comes is
\* reported Skipped with no endpoint call.
C28_FlagSampledAtGate ==
    []C28_GateDecidesOnce /\ [][C28_DisabledAtItsTurnIsSkipped]_vars

C28_Witness ==
    /\ op["t1"] = "execute_all_agents"
    /\ pc["t1"] = "ea_loop" /\ idx["t1"] = 3
    /\ results["t1"][1].status = "success"
    /\ Count(EventsOf("t1", "a1"), "sleep") = 1
    /\ Count(EventsOf("t1", "a1"), "call") = 2
    /\ Last(EventsOf("t1", "a1")).ev = "write"
    /\ results["t1"][2] = SkippedResult("a2")
    /\ EventsOf("t1", "a2") = <<>>
    /\ ~enabled["s1"]["a1"] /\ ~enabled["s1"]["a2"]

\* ------------------------------------ two executions of the same agent
\* A caller that executes agent a1, whose destination is o1.
Exec(t) == call_execute_agent(t, "a1") \/ Frame(t)

\* The server process with two clients that both execute a1 and both enable
\* and disable it: coroutines on one event loop, one AIAgentSystem.  All of
\* it happens within one second, so every backup goes to the same path.
InitShared ==
    /\ rev \in Revisions
    /\ inst = [t \in Tasks |-> "s1"]
    /\ enabled = [i \in Instances |-> [a \in AgentIds |-> TRUE]]
    /\ disk_enabled = [a \in AgentIds |-> TRUE]
    /\ max_retries = <<2>>
    /\ backup_flag = <<TRUE>>
    /\ files = [o \in Paths |-> OldContent]
    /\ templates = [p \in TemplatePaths |-> Absent]
    /\ inputs = [i \in InputPaths |-> <<"doc">>]
    /\ endpoint = CommonReplies
    /\ Constructed
    /\ Booted

NextShared ==
    \/ \E t \in Tasks : LoopRuns(t) /\ Exec(t)
    \/ \E t \in Tasks, b \in BOOLEAN : LoopRuns(t) /\ set_enabled(t, "a1", b)

SpecShared == InitShared /\ [][NextShared]_vars

\* The timestamp of the backup the current frame of t took.
BackupTakenAt(t) ==
    LET ev == EventsOf(t, cur[t])
    IN  ev[CHOOSE i \in 1..Len(ev) : ev[i].ev = "backup"].n

\* The frame of t stands between its backup and its write.
BetweenBackupAndWrite(t) ==
    /\ pc[t] = "write"
    /\ Count(EventsOf(t, cur[t]), "backup") = 1

\* The coroutine of t is running: it is neither suspended nor without a call.
Running(t) == pc[t] # "idle" /\ pc[t] \notin SuspensionPoints

C29_BackupIsWhatTheWriteReplaces ==
    /\ \A t \in Tasks :
          BetweenBackupAndWrite(t)
          => backups[BackupPath(OutputFile(cur[t]), BackupTakenAt(t))]
                = files[OutputFile(cur[t])]
    /\ \A t, u \in Tasks : (Running(t) /\ Running(u)) => t = u

\* Every change of the registry is one enable_agent / disable_agent call
\* setting its own flag, with the whole registry saved or the save failing;
\* every such call leaves its flag set as asked and the other flags alone.
C29_NoUpdateLost ==
    /\ regVars' # regVars
       => \E t \in Tasks, a \in AgentIds, b \in BOOLEAN :
             /\ pc[t] = "idle" /\ pc'[t] = "idle"
             /\ op'[t] = (IF b THEN "enable_agent" ELSE "disable_agent")
             /\ cur'[t] = a
             /\ enabled' = [enabled EXCEPT ![inst[t]][a] = b]
             /\ disk_enabled' \in {disk_enabled, enabled'[inst[t]]}
    /\ \A t \in Tasks :
          (Locals(t)' # Locals(t) /\ op'[t] \in {"enable_agent", "disable_agent"}
              /\ cur'[t] \in AgentIds)
          => /\ enabled'[inst[t]][cur'[t]] = (op'[t] = "enable_agent")
             /\ log'[t][1].ev = "save" => disk_enabled' = enabled'[inst[t]]

\* C29: in one process, with one AIAgentSystem on one event loop, an
\* execution is suspended only at the completion call and at the backoff
\* sleep.  Its backup and its write run with nothing in between, and
\* enable_agent and disable_agent run without suspension: however the
\* coroutines interleave at the awaits, an execution that stands between its
\* backup and its write finds in its backup exactly the content the write is
\* about to replace, and no enable/disable update is lost.
C29_AtomicBetweenAwaits ==
    []C29_BackupIsWhatTheWriteReplaces /\ [][C29_NoUpdateLost]_vars

C29_Witness ==
    /\ pc["t1"] = "calling" /\ attempt["t1"] = 1
    /\ Count(EventsOf("t1", "a1"), "sleep") = 1
    /\ BetweenBackupAndWrite("t2")
    /\ files["o1"] = <<"txt">>
    /\ backups[BackupPath("o1", BackupTakenAt("t2"))] = <<"txt">>
    /\ Count(EventsOf("t2", "a1"), "sleep") = 1

\* --------------------------------------------------------- two processes
\* Two processes, each with its own AIAgentSystem built from the same
\* document: the server, and the command-line runner of ai_agents.py or a
\* second server.  Both execute a1 and so share the destination o1; the
\* operating system interleaves them at any statement.  All of it happens
\* within one second.
InitProcesses ==
    /\ rev \in Revisions
    /\ inst = [t \in Tasks |-> IF t = "t1" THEN "s1" ELSE "s2"]
    /\ enabled = [i \in Instances |-> [a \in AgentIds |-> TRUE]]
    /\ disk_enabled = [a \in AgentIds |-> TRUE]
    /\ max_retries = <<2>>
    /\ backup_flag = <<TRUE>>
    /\ files = [o \in Paths |-> OldContent]
    /\ templates = [p \in TemplatePaths |-> Absent]
    /\ inputs = [i \in InputPaths |-> <<"doc">>]
    /\ endpoint = CommonReplies
    /\ Constructed
    /\ Booted

NextProcesses == \E t \in Tasks : Exec(t)

SpecProcesses == InitProcesses /\ [][NextProcesses]_vars

\* Task t takes its backup in this step.
TakesBackup(t) ==
    /\ pc[t] = "backup" /\ pc'[t] = "write"
    /\ Count(EventsOf(t, cur[t]), "backup")' = 1

C25_BackupCopiesDestination ==
    \A t \in Tasks :
        TakesBackup(t)
        => /\ backups'[BackupPath(OutputFile(cur[t]), now)]
                 = files[OutputFile(cur[t])]
           /\ files' = files

C25_OnlyAnotherExecutionIntervenes ==
    \A t \in Tasks :
        (BetweenBackupAndWrite(t) /\ pc'[t] = "write" /\ fsVars' # fsVars)
        => \E u \in Tasks \ {t} :
              /\ pc[u] \in {"backup", "write"} /\ pc'[u] # pc[u]
              /\ OutputFile(cur[u]) = OutputFile(cur[t])

\* C25: two concurrent executions that target the same output path can
\* interleave their backup-then-write steps.  The backup an execution takes
\* is a copy of the destination at that moment, and between its backup and
\* its write the destination and the backups change only by the backup or
\* the write of another execution on the same path; such a step is possible,
\* and then the backup is not the content the write replaces (the witness).
C25_BackupThenWriteInterleaves ==
    [][C25_BackupCopiesDestination /\ C25_OnlyAnotherExecutionIntervenes]_vars

C25_Witness ==
    \E t \in Tasks :
        /\ BetweenBackupAndWrite(t)
        /\ backups[BackupPath("o1", BackupTakenAt(t))] = OldContent
        /\ files["o1"] = <<"txt">>
        /\ result[t] = FencedReply
        /\ \E u \in Tasks \ {t} :
              /\ pc[u] = "return" /\ JustWritten(u)
              /\ Count(EventsOf(u, cur[u]), "backup") = 1
====
